---- MODULE Spec2Model ----
(***************************************************************************)
(* State-machine model of the optimisation notebook: train_loop,           *)
(* test_loop and the epoch loop that drives them, over an abstract model   *)
(* (a linear scorer with integer weights), an abstract loss function and   *)
(* a DataLoader that cuts a dataset into consecutive batches.              *)
(*                                                                         *)
(* Numbers are integers: a weight is counted in units of the learning      *)
(* rate, a loss is the integer sum of the per-sample losses of a batch,    *)
(* and a quotient (mean loss, accuracy) is kept as the pair                *)
(* <<numerator, denominator>> that the code divides.                       *)
(***************************************************************************)
EXTENDS Integers, Sequences, FiniteSets, TLC

\* ---------------------------------------------------------------- bounds
MaxEpochs == 2
MaxTrainSize == 3
MaxTestSize == 3
\* samples of the long training set: with batches of 2 it gives batch
\* indices 0 .. 100, the last batch one sample short
LongTrainSize == 201
MaxLabels == 2

\* ------------------------------------------------------ program constants
\* learning_rate = 1e-3; one weight unit of the model is one learning rate
learning_rate == 1
\* the literal of `batch % 100 == 0`
ReportEvery == 100
NumLabelClasses == 10

\* ----------------------------------------------------------- input sets
Classes == 0 .. 1
LossFns == {"hinge", "margin"}
\* batch sizes the two loaders are built with
LoaderBatchSizes == {1, 2}
\* the hyperparameter cell: the epoch counts with the batch_size of the
\* notebook, and a batch_size of 0
Hyperparameters ==
    [epochs : 0 .. MaxEpochs, batch_size : {64}]
        \cup [epochs : {1}, batch_size : {0}]

\* the collection the datasets are cut from, read cyclically
Pool ==
    << [x |-> 1, y |-> 0], [x |-> 2, y |-> 1], [x |-> 2, y |-> 1],
       [x |-> 1, y |-> 0] >>

\* a dataset: n consecutive samples of the pool
Slice(start, n) ==
    [i \in 1 .. n |-> Pool[((start + i - 2) % Len(Pool)) + 1]]

\* the datasets of at most max samples
Datasets(max) == {Slice(k, n) : k \in 1 .. Len(Pool), n \in 0 .. max}

VARIABLES
    epochs,            \* number of epochs of the epoch loop
    batch_size,        \* the hyperparameter batch_size
    loss_fn,           \* the global loss_fn
    loss_arg,          \* the loss function passed to train_loop and test_loop
    train_dataloader,  \* [dataset, batch_size]
    test_dataloader,   \* [dataset, batch_size]
    params,            \* model parameters: weight of each class
    grad,              \* accumulated .grad of each parameter
    training,          \* model.training: TRUE after train(), FALSE after eval()
    grad_enabled,      \* torch.is_grad_enabled()
    pc,                \* position of the running cell
    t,                 \* epoch loop index
    batch,             \* index of the batch the running loop is at
    local,             \* locals of the running function
    err,               \* the exception that ended the run, or "none"
    trace,             \* everything done and printed so far, in order
    vgg,               \* the model the saving and loading cells bind
    disk,              \* the files written, by path
    cell,              \* number of saving / loading statements run
    labels,            \* the integer labels of the dataset of the transforms cell
    item,              \* number of labels the target_transform was applied to
    targets            \* the transformed labels, in order

vars == << epochs, batch_size, loss_fn, loss_arg, train_dataloader, test_dataloader,
           params, grad, training, grad_enabled, pc, t, batch, local, err, trace,
           vgg, disk, cell, labels, item, targets >>

\* the state of the transforms cell
transforms == << labels, item, targets >>

\* the state of the saving and loading cells
files == << vgg, disk, cell >>

inputs == << epochs, batch_size, loss_fn, loss_arg, train_dataloader,
            test_dataloader >>

\* ------------------------------------------------------------- DataLoader
Min(a, b) == IF a < b THEN a ELSE b

\* faulty variant: the last, shorter batch is dropped (drop_last = True)
LenLoader_DropLast(dl) == Len(dl.dataset) \div dl.batch_size

\* len(dataloader): ceil(len(dataset) / batch_size), drop_last = False
LenLoader(dl) == (Len(dl.dataset) + dl.batch_size - 1) \div dl.batch_size

\* the i-th batch (zero-indexed) a sequential loader yields
BatchAt(dl, i) ==
    SubSeq(dl.dataset, i * dl.batch_size + 1,
           Min((i + 1) * dl.batch_size, Len(dl.dataset)))

\* ------------------------------------------------------------------ model
Zero == [c \in Classes |-> 0]

\* model(X): one row of class scores per sample
Forward(p, X) == [i \in 1 .. Len(X) |-> [c \in Classes |-> p[c] * X[i].x]]

\* faulty variant: the index of the minimum
Argmax_OfMin(row) ==
    CHOOSE c \in Classes :
        /\ \A d \in Classes : row[c] <= row[d]
        /\ \A d \in Classes : row[d] = row[c] => c <= d

\* pred.argmax(1) of one row: the first index holding the maximum
Argmax(row) ==
    CHOOSE c \in Classes :
        /\ \A d \in Classes : row[d] <= row[c]
        /\ \A d \in Classes : row[d] = row[c] => c <= d

\* ------------------------------------------------------------------- loss
Other(c) == 1 - c

\* per-sample loss of a score row against its label
SampleLoss(lf, row, y) ==
    LET m == row[Other(y)] - row[y]
    IN  IF lf = "hinge" THEN (IF 1 + m > 0 THEN 1 + m ELSE 0) ELSE m

RECURSIVE SumTo(_, _)
SumTo(f, n) == IF n = 0 THEN 0 ELSE f[n] + SumTo(f, n - 1)

\* loss_fn(pred, y): a scalar
Loss(lf, pred, X) ==
    SumTo([i \in 1 .. Len(X) |-> SampleLoss(lf, pred[i], X[i].y)], Len(X))

\* d loss / d params of one sample
SampleGrad(lf, p, s) ==
    LET row == [c \in Classes |-> p[c] * s.x]
        active == lf = "margin" \/ 1 + row[Other(s.y)] - row[s.y] > 0
    IN  [c \in Classes |->
            IF ~active THEN 0 ELSE IF c = s.y THEN 0 - s.x ELSE s.x]

\* d loss / d params of a batch
BatchGrad(lf, p, X) ==
    [c \in Classes |->
        SumTo([i \in 1 .. Len(X) |-> SampleGrad(lf, p, X[i])[c]], Len(X))]

\* faulty variant: backward replaces .grad instead of adding to it
Backward_Overwrites(g, lf, p, X) == BatchGrad(lf, p, X)

\* loss.backward(): gradients add up into .grad
Backward(g, lf, p, X) == [c \in Classes |-> g[c] + BatchGrad(lf, p, X)[c]]

\* optimizer.step() of plain SGD
SgdStep(p, g) == [c \in Classes |-> p[c] - learning_rate * g[c]]

\* faulty variant: the gradients are left as they are
ZeroGrad_Omitted(g) == g

\* optimizer.zero_grad()
ZeroGrad(g) == [c \in Classes |-> 0]

\* ------------------------------------------------------------------ trace
Ev(kind, e, b, v) == [kind |-> kind, epoch |-> e, batch |-> b, val |-> v]
NoVal == << 0, 0, 0, 0 >>
NoLocal == [size |-> 0, num_batches |-> 0, loss_fun |-> "none", X |-> << >>,
            pred |-> << >>, requires_grad |-> FALSE, loss |-> 0,
            test_loss |-> 0, correct |-> 0, seen |-> 0, prev_grad |-> TRUE]

\* ------------------------------------------------ saving and loading
\* the parameter names of an architecture (two of vgg16's stand for all)
ParamNames(arch) ==
    IF arch = "vgg16" THEN {"features.0.weight", "classifier.6.bias"} ELSE {}

\* weights='IMAGENET1K_V1': the pretrained value of every parameter
IMAGENET1K_V1 ==
    [n \in ParamNames("vgg16") |-> IF n = "features.0.weight" THEN 1 ELSE 2]

\* the values a newly constructed, untrained vgg16 may hold
InitWeights == [ParamNames("vgg16") -> 0 .. 1] \cup {IMAGENET1K_V1}

NoModel == [arch |-> "none", weights |-> [n \in {} |-> 0], training |-> TRUE]

\* the path written by torch.save and the path read by torch.load
SavePath == "model_weights.pth"
LoadPath == "model_weights.pth"
Paths == {SavePath, LoadPath}
NoFile == [exists |-> FALSE, data |-> [n \in {} |-> 0]]

\* model.state_dict(): the parameters by name, without structure or mode
StateDict(m) == [n \in ParamNames(m.arch) |-> m.weights[n]]

\* faulty variant: the biases of the model are left as constructed
LoadStateDict_WeightsOnly(m, sd) ==
    [m EXCEPT !.weights =
        [n \in DOMAIN @ |-> IF n = "classifier.6.bias" THEN @[n] ELSE sd[n]]]

\* model.load_state_dict(sd) with matching keys: every parameter is copied
LoadStateDict(m, sd) ==
    [m EXCEPT !.weights = [n \in DOMAIN @ |-> sd[n]]]

\* ------------------------------------------------- the label transform
\* the labels of FashionMNIST
LabelValues == 0 .. 9

\* torch.zeros(n, dtype = torch.float)
Zeros(n) == [k \in 0 .. n - 1 |-> 0]

\* v.scatter_(0, torch.tensor(index), value = value) for one index
Scatter(v, index, value) ==
    [k \in DOMAIN v |-> IF k = index THEN value ELSE v[k]]

\* faulty variant: the zero tensor is returned as it is
TargetTransform_NoScatter(y) == Zeros(NumLabelClasses)

\* lambda y: torch.zeros(10, ...).scatter_(0, torch.tensor(y), value = 1)
TargetTransform(y) == Scatter(Zeros(NumLabelClasses), y, 1)

\* sequences over S of length at most n
RECURSIVE SeqsUpTo(_, _)
SeqsUpTo(S, n) ==
    IF n = 0 THEN {<< >>}
    ELSE LET shorter == SeqsUpTo(S, n - 1)
         IN  shorter \cup {Append(q, x) : q \in shorter, x \in S}

Init ==
    /\ \/ \* short datasets, every hyperparameter choice
          /\ \E h \in Hyperparameters :
               /\ epochs = h.epochs
               /\ batch_size = h.batch_size
          /\ \E bs \in LoaderBatchSizes :
               /\ train_dataloader \in
                    [dataset : Datasets(MaxTrainSize), batch_size : {bs}]
               /\ test_dataloader \in
                    [dataset : Datasets(MaxTestSize), batch_size : {bs}]
       \/ \* one epoch over a training set of more than 100 batches
          /\ epochs = 1
          /\ batch_size = 64
          /\ \E bs \in LoaderBatchSizes :
               /\ train_dataloader =
                    [dataset |-> Slice(1, LongTrainSize), batch_size |-> bs]
               /\ test_dataloader = [dataset |-> Slice(1, 1), batch_size |-> bs]
    /\ loss_fn \in LossFns
    \* the notebook passes the global loss_fn; another caller may pass another
    /\ loss_arg \in LossFns
    /\ loss_arg # loss_fn => epochs = 1
    /\ params = Zero
    /\ grad = Zero
    /\ training = TRUE
    /\ grad_enabled = TRUE
    /\ pc = "epoch"
    /\ t = 0
    /\ batch = 0
    /\ local = NoLocal
    /\ err = "none"
    /\ trace = << >>
    /\ vgg = NoModel
    /\ disk = [p \in Paths |-> NoFile]
    /\ cell = 0
    /\ labels = << >>
    /\ item = 0
    /\ targets = << >>

\* ------------------------------------------------------------- epoch loop
\* for t in range(epochs): print(f"Epoch {t+1}...")
EpochHeader ==
    /\ pc = "epoch"
    /\ t < epochs
    /\ trace' = Append(trace, Ev("header", t + 1, 0, NoVal))
    /\ pc' = "train_enter"
    /\ UNCHANGED << transforms, files, inputs, params, grad, training, grad_enabled, t, batch,
                    local, err >>

\* faulty variant: the loop also ends once an evaluation pass has been made
Done_EarlyStop ==
    /\ pc = "epoch"
    /\ ~(t < epochs) \/ t >= 1
    /\ trace' = Append(trace, Ev("done", t, 0, NoVal))
    /\ pc' = "done"
    /\ UNCHANGED << transforms, files, inputs, params, grad, training, grad_enabled, t, batch,
                    local, err >>

\* faulty variant: the loop ends without the completion marker
Done_Silent ==
    /\ pc = "epoch"
    /\ ~(t < epochs)
    /\ pc' = "done"
    /\ UNCHANGED << transforms, files, inputs, params, grad, training, grad_enabled, t, batch,
                    local, err, trace >>

\* the loop is exhausted: print("Done!")
Done ==
    /\ pc = "epoch"
    /\ ~(t < epochs)
    /\ trace' = Append(trace, Ev("done", t, 0, NoVal))
    /\ pc' = "done"
    /\ UNCHANGED << transforms, files, inputs, params, grad, training, grad_enabled, t, batch,
                    local, err >>

\* ------------------------------------------------------------- train_loop
\* faulty variant: train_loop does not call model.train()
TrainEnter_NoTrainMode ==
    /\ pc = "train_enter"
    /\ local' = [NoLocal EXCEPT !.size = Len(train_dataloader.dataset),
                                !.loss_fun = loss_arg]
    /\ training' = training
    /\ batch' = 0
    /\ pc' = "train_iter"
    /\ UNCHANGED << transforms, files, inputs, params, grad, grad_enabled, t, err, trace >>

\* train_loop(train_dataloader, model, loss_arg, optimizer):
\*   size = len(dataloader.dataset); model.train()
TrainEnter ==
    /\ pc = "train_enter"
    /\ local' = [NoLocal EXCEPT !.size = Len(train_dataloader.dataset),
                                !.loss_fun = loss_arg]
    /\ training' = TRUE
    /\ batch' = 0
    /\ pc' = "train_iter"
    /\ UNCHANGED << transforms, files, inputs, params, grad, grad_enabled, t, err, trace >>

\* faulty variant: the iteration takes the batch out of the dataset
TrainForward_ConsumesBatch ==
    /\ pc = "train_iter"
    /\ batch < LenLoader(train_dataloader)
    /\ LET X == BatchAt(train_dataloader, batch)
       IN  /\ local' = [local EXCEPT !.X = X,
                                     !.pred = Forward(params, X),
                                     !.requires_grad = grad_enabled]
           /\ train_dataloader' =
                 [train_dataloader EXCEPT
                    !.dataset = SubSeq(@, Len(X) + 1, Len(@))]
    /\ trace' = Append(trace, Ev("forward", t + 1, batch, NoVal))
    /\ pc' = "train_loss"
    /\ UNCHANGED << transforms, files, epochs, batch_size, loss_fn, loss_arg, test_dataloader,
                    params, grad, training, grad_enabled, t, batch, err >>

\* enumerate(dataloader) yields the next batch; pred = model(X)
TrainForward ==
    /\ pc = "train_iter"
    /\ batch < LenLoader(train_dataloader)
    /\ LET X == BatchAt(train_dataloader, batch)
       IN  local' = [local EXCEPT !.X = X,
                                  !.pred = Forward(params, X),
                                  !.requires_grad = grad_enabled]
    /\ trace' = Append(trace, Ev("forward", t + 1, batch, NoVal))
    /\ pc' = "train_loss"
    /\ UNCHANGED << transforms, files, inputs, params, grad, training, grad_enabled, t, batch, err >>

\* faulty variant: the evaluation pass of the epoch is not run
TrainReturn_SkipsEval ==
    /\ pc = "train_iter"
    /\ ~(batch < LenLoader(train_dataloader))
    /\ pc' = "epoch"
    /\ t' = t + 1
    /\ UNCHANGED << transforms, files, inputs, params, grad, training, grad_enabled, batch,
                    local, err, trace >>

\* enumerate(dataloader) is exhausted: train_loop returns
TrainReturn ==
    /\ pc = "train_iter"
    /\ ~(batch < LenLoader(train_dataloader))
    /\ pc' = "test_enter"
    /\ UNCHANGED << transforms, files, inputs, params, grad, training, grad_enabled, t, batch,
                    local, err, trace >>

\* loss = loss_fn(pred, y): the global loss_fn, not the argument loss_fun
TrainLoss ==
    /\ pc = "train_loss"
    /\ local' = [local EXCEPT !.loss = Loss(loss_fn, local.pred, local.X)]
    /\ pc' = "train_backward"
    /\ UNCHANGED << transforms, files, inputs, params, grad, training, grad_enabled, t, batch,
                    err, trace >>

\* loss.backward()
TrainBackward ==
    /\ pc = "train_backward"
    /\ IF local.requires_grad
       THEN /\ grad' = Backward(grad, loss_fn, params, local.X)
            /\ trace' = Append(trace, Ev("backward", t + 1, batch, NoVal))
            /\ pc' = "train_step"
            /\ err' = err
       ELSE \* the loss has no graph: backward raises
            /\ err' = "RuntimeError"
            /\ pc' = "error"
            /\ UNCHANGED << grad, trace >>
    /\ UNCHANGED << transforms, files, inputs, params, training, grad_enabled, t, batch, local >>

\* optimizer.step()
TrainStep ==
    /\ pc = "train_step"
    /\ params' = SgdStep(params, grad)
    /\ trace' = Append(trace, Ev("step", t + 1, batch, << grad[0], grad[1], 0, 0 >>))
    /\ pc' = "train_zero"
    /\ UNCHANGED << transforms, files, inputs, grad, training, grad_enabled, t, batch, local, err >>

\* optimizer.zero_grad()
TrainZeroGrad ==
    /\ pc = "train_zero"
    /\ grad' = ZeroGrad(grad)
    /\ pc' = "train_report"
    /\ UNCHANGED << transforms, files, inputs, params, training, grad_enabled, t, batch, local,
                    err, trace >>

\* faulty variant: the loop advances by two batches
TrainReport_SkipsBatch ==
    /\ pc = "train_report"
    /\ batch' = batch + 2
    /\ pc' = "train_iter"
    /\ UNCHANGED << transforms, files, inputs, params, grad, training, grad_enabled, t, local, err,
                    trace >>

\* if batch % 100 == 0: print(loss, current, size); then the next iteration
TrainReport ==
    /\ pc = "train_report"
    /\ trace' = IF batch % ReportEvery = 0
                THEN Append(trace, Ev("report", t + 1, batch,
                       << local.loss, (batch + 1) * Len(local.X), local.size, 0 >>))
                ELSE trace
    /\ batch' = batch + 1
    /\ pc' = "train_iter"
    /\ UNCHANGED << transforms, files, inputs, params, grad, training, grad_enabled, t, local, err >>

\* -------------------------------------------------------------- test_loop
\* number of samples of the batch whose predicted class equals the label
Correct(pred, X) ==
    Cardinality({i \in 1 .. Len(X) : Argmax(pred[i]) = X[i].y})

\* faulty variant: a division by zero gives a value (nan) instead of raising
Div_NoRaise(a, b) == << a, b >>

\* a /= b of two Python numbers
Div(a, b) == IF b = 0 THEN "ZeroDivisionError" ELSE << a, b >>

\* faulty variant: the running metrics go on from the totals of the previous
\* evaluation pass instead of 0, 0
TestEnter_KeepsMetrics ==
    /\ pc = "test_enter"
    /\ training' = FALSE
    /\ LET S == {i \in 1 .. Len(trace) : trace[i].kind = "summary"}
           prev == IF S = {} THEN NoVal
                   ELSE trace[CHOOSE i \in S : \A j \in S : j <= i].val
       IN  local' = [NoLocal EXCEPT !.size = Len(test_dataloader.dataset),
                                    !.num_batches = LenLoader(test_dataloader),
                                    !.loss_fun = loss_arg,
                                    !.prev_grad = grad_enabled,
                                    !.test_loss = prev[3],
                                    !.correct = prev[1]]
    /\ grad_enabled' = FALSE
    /\ batch' = 0
    /\ pc' = "test_iter"
    /\ UNCHANGED << transforms, files, inputs, params, grad, t, err, trace >>

\* faulty variant: the loop of test_loop is not under torch.no_grad()
TestEnter_GradEnabled ==
    /\ pc = "test_enter"
    /\ training' = FALSE
    /\ local' = [NoLocal EXCEPT !.size = Len(test_dataloader.dataset),
                                !.num_batches = LenLoader(test_dataloader),
                                !.loss_fun = loss_arg,
                                !.prev_grad = grad_enabled]
    /\ grad_enabled' = grad_enabled
    /\ batch' = 0
    /\ pc' = "test_iter"
    /\ UNCHANGED << transforms, files, inputs, params, grad, t, err, trace >>

\* test_loop(test_dataloader, model, loss_arg): model.eval(); size;
\* num_batches; test_loss, correct = 0, 0; with torch.no_grad():
TestEnter ==
    /\ pc = "test_enter"
    /\ training' = FALSE
    /\ local' = [NoLocal EXCEPT !.size = Len(test_dataloader.dataset),
                                !.num_batches = LenLoader(test_dataloader),
                                !.loss_fun = loss_arg,
                                !.prev_grad = grad_enabled]
    /\ grad_enabled' = FALSE
    /\ batch' = 0
    /\ pc' = "test_iter"
    /\ UNCHANGED << transforms, files, inputs, params, grad, t, err, trace >>

\* faulty variant: the evaluation pass back-propagates its loss
TestBatch_Backward ==
    /\ pc = "test_iter"
    /\ batch < LenLoader(test_dataloader)
    /\ LET X == BatchAt(test_dataloader, batch)
           pred == Forward(params, X)
       IN  /\ local' = [local EXCEPT
                          !.X = X, !.pred = pred, !.requires_grad = grad_enabled,
                          !.test_loss = @ + Loss(local.loss_fun, pred, X),
                          !.correct = @ + Correct(pred, X),
                          !.seen = @ + Len(X)]
           /\ grad' = Backward(grad, local.loss_fun, params, X)
    /\ trace' = Append(trace, Ev("eval", t + 1, batch, NoVal))
    /\ batch' = batch + 1
    /\ UNCHANGED << transforms, files, inputs, params, training, grad_enabled, pc, t, err >>

\* one iteration of `for X, y in dataloader`
TestBatch ==
    /\ pc = "test_iter"
    /\ batch < LenLoader(test_dataloader)
    /\ LET X == BatchAt(test_dataloader, batch)
           pred == Forward(params, X)
       IN  local' = [local EXCEPT
                       !.X = X, !.pred = pred, !.requires_grad = grad_enabled,
                       !.test_loss = @ + Loss(local.loss_fun, pred, X),
                       !.correct = @ + Correct(pred, X),
                       !.seen = @ + Len(X)]
    /\ trace' = Append(trace, Ev("eval", t + 1, batch, NoVal))
    /\ batch' = batch + 1
    /\ UNCHANGED << transforms, files, inputs, params, grad, training, grad_enabled, pc, t, err >>

\* faulty variant: gradient tracking stays off when the with-block exits
TestExit_LeavesGradOff ==
    /\ pc = "test_iter"
    /\ ~(batch < LenLoader(test_dataloader))
    /\ grad_enabled' = grad_enabled
    /\ pc' = "test_summary"
    /\ UNCHANGED << transforms, files, inputs, params, grad, training, t, batch, local, err, trace >>

\* the loader is exhausted: the with-block exits
TestExit ==
    /\ pc = "test_iter"
    /\ ~(batch < LenLoader(test_dataloader))
    /\ grad_enabled' = local.prev_grad
    /\ pc' = "test_summary"
    /\ UNCHANGED << transforms, files, inputs, params, grad, training, t, batch, local, err, trace >>

\* faulty variant: the loss sum is divided by the dataset size
TestSummary_LossBySize ==
    /\ pc = "test_summary"
    /\ LET mean == Div(local.test_loss, local.size)
           acc == IF mean = "ZeroDivisionError" THEN mean
                  ELSE Div(local.correct, local.size)
       IN  IF acc = "ZeroDivisionError"
           THEN /\ err' = "ZeroDivisionError"
                /\ pc' = "error"
                /\ UNCHANGED << t, trace >>
           ELSE /\ trace' = Append(trace, Ev("summary", t + 1, 0,
                                << acc[1], acc[2], mean[1], mean[2] >>))
                /\ t' = t + 1
                /\ pc' = "epoch"
                /\ err' = err
    /\ UNCHANGED << transforms, files, inputs, params, grad, training, grad_enabled, batch, local >>

\* faulty variant: the correct count is divided by the number of batches
TestSummary_CorrectByBatches ==
    /\ pc = "test_summary"
    /\ LET mean == Div(local.test_loss, local.num_batches)
           acc == IF mean = "ZeroDivisionError" THEN mean
                  ELSE Div(local.correct, local.num_batches)
       IN  IF acc = "ZeroDivisionError"
           THEN /\ err' = "ZeroDivisionError"
                /\ pc' = "error"
                /\ UNCHANGED << t, trace >>
           ELSE /\ trace' = Append(trace, Ev("summary", t + 1, 0,
                                << acc[1], acc[2], mean[1], mean[2] >>))
                /\ t' = t + 1
                /\ pc' = "epoch"
                /\ err' = err
    /\ UNCHANGED << transforms, files, inputs, params, grad, training, grad_enabled, batch, local >>

\* test_loss /= num_batches; correct /= size; print(...)
TestSummary ==
    /\ pc = "test_summary"
    /\ LET mean == Div(local.test_loss, local.num_batches)
           acc == IF mean = "ZeroDivisionError" THEN mean
                  ELSE Div(local.correct, local.size)
       IN  IF acc = "ZeroDivisionError"
           THEN /\ err' = "ZeroDivisionError"
                /\ pc' = "error"
                /\ UNCHANGED << t, trace >>
           ELSE /\ trace' = Append(trace, Ev("summary", t + 1, 0,
                                << acc[1], acc[2], mean[1], mean[2] >>))
                /\ t' = t + 1
                /\ pc' = "epoch"
                /\ err' = err
    /\ UNCHANGED << transforms, files, inputs, params, grad, training, grad_enabled, batch, local >>

\* --------------------------------------------------------------- failures
\* faulty variant: the exception is caught and the loop goes on with the
\* next batch
Fail_Swallowed ==
    /\ \/ pc = "train_iter" /\ batch < LenLoader(train_dataloader)
       \/ pc \in {"train_loss", "train_backward", "train_step"}
       \/ pc = "test_iter" /\ batch < LenLoader(test_dataloader)
    /\ err' = "RuntimeError"
    /\ pc' = IF pc = "test_iter" THEN "test_iter" ELSE "train_iter"
    /\ batch' = batch + 1
    /\ UNCHANGED << transforms, files, inputs, params, grad, training, grad_enabled, t, local, trace >>

\* a forward, loss, backward or update call of the framework raises
Fail ==
    /\ \/ pc = "train_iter" /\ batch < LenLoader(train_dataloader)
       \/ pc \in {"train_loss", "train_backward", "train_step"}
       \/ pc = "test_iter" /\ batch < LenLoader(test_dataloader)
    /\ err' = "RuntimeError"
    /\ grad_enabled' = IF pc = "test_iter" THEN local.prev_grad ELSE grad_enabled
    /\ pc' = "error"
    /\ UNCHANGED << transforms, files, inputs, params, grad, training, t, batch, local, trace >>

\* ------------------------------------------ the saving and loading cells
\* model = models.vgg16(weights='IMAGENET1K_V1')
VggPretrained ==
    /\ pc = "done" /\ cell = 0
    /\ vgg' = [arch |-> "vgg16", weights |-> IMAGENET1K_V1, training |-> TRUE]
    /\ cell' = 1
    /\ UNCHANGED << transforms, inputs, params, grad, training, grad_enabled, pc, t, batch,
                    local, err, trace, disk >>

\* torch.save(model.state_dict(), 'model_weights.pth')
SaveWeights ==
    /\ pc = "done" /\ cell = 1
    /\ disk' = [disk EXCEPT ![SavePath] = [exists |-> TRUE, data |-> StateDict(vgg)]]
    /\ cell' = 2
    /\ UNCHANGED << transforms, inputs, params, grad, training, grad_enabled, pc, t, batch,
                    local, err, trace, vgg >>

\* model = models.vgg16(): an untrained model of the same structure
VggFresh ==
    /\ pc = "done" /\ cell = 2
    /\ \E w \in InitWeights :
         vgg' = [arch |-> "vgg16", weights |-> w, training |-> TRUE]
    /\ cell' = 3
    /\ UNCHANGED << transforms, inputs, params, grad, training, grad_enabled, pc, t, batch,
                    local, err, trace, disk >>

\* model.load_state_dict(torch.load('model_weights.pth')); model.eval()
LoadWeights ==
    /\ pc = "done" /\ cell = 3
    /\ LET f == disk[LoadPath]
       IN  IF ~f.exists
           THEN /\ err' = "FileNotFoundError"
                /\ pc' = "error"
                /\ UNCHANGED vgg
           ELSE IF DOMAIN f.data # ParamNames(vgg.arch)
           THEN /\ err' = "RuntimeError"
                /\ pc' = "error"
                /\ UNCHANGED vgg
           ELSE /\ vgg' = [LoadStateDict(vgg, f.data) EXCEPT !.training = FALSE]
                /\ UNCHANGED << pc, err >>
    /\ cell' = 4
    /\ UNCHANGED << transforms, inputs, params, grad, training, grad_enabled, t, batch,
                    local, trace, disk >>

\* ------------------------------------------------- the transforms cell
\* a dataset of the transforms cell with any labels; nothing else has run
TransformInit ==
    /\ epochs = 0 /\ batch_size = 64
    /\ loss_fn = "hinge" /\ loss_arg = "hinge"
    /\ train_dataloader = [dataset |-> << >>, batch_size |-> 1]
    /\ test_dataloader = [dataset |-> << >>, batch_size |-> 1]
    /\ params = Zero /\ grad = Zero
    /\ training = TRUE /\ grad_enabled = TRUE
    /\ pc = "transforms" /\ t = 0 /\ batch = 0
    /\ local = NoLocal /\ err = "none" /\ trace = << >>
    /\ vgg = NoModel /\ disk = [p \in Paths |-> NoFile] /\ cell = 0
    /\ labels \in SeqsUpTo(LabelValues, MaxLabels)
    /\ item = 0
    /\ targets = << >>

\* reading the next item of the dataset applies target_transform to its label
ApplyTargetTransform ==
    /\ pc = "transforms"
    /\ item < Len(labels)
    /\ targets' = Append(targets, TargetTransform(labels[item + 1]))
    /\ item' = item + 1
    /\ UNCHANGED << files, inputs, params, grad, training, grad_enabled, pc, t,
                    batch, local, err, trace, labels >>

TransformNext == ApplyTargetTransform

TransformSpec == TransformInit /\ [][TransformNext]_vars

Next ==
    \/ EpochHeader
    \/ Done
    \/ TrainEnter
    \/ TrainForward
    \/ TrainReturn
    \/ TrainLoss
    \/ TrainBackward
    \/ TrainStep
    \/ TrainZeroGrad
    \/ TrainReport
    \/ TestEnter
    \/ TestBatch
    \/ TestExit
    \/ TestSummary
    \/ Fail
    \/ VggPretrained
    \/ SaveWeights
    \/ VggFresh
    \/ LoadWeights

Spec == Init /\ [][Next]_vars

\* the run goes on as long as it can
FairSpec == Spec /\ WF_vars(Next)

\* ============================================================ properties
TrainOpKinds == {"forward", "backward", "step"}
TestPcs == {"test_enter", "test_iter", "test_summary"}
TrainBodyPcs == {"train_loss", "train_backward", "train_step", "train_zero",
                 "train_report"}

\* the forward / backward / step operations of epoch e, in the order done
TrainOps(e) ==
    LET IsOp(ev) == ev.kind \in TrainOpKinds /\ ev.epoch = e
        ops == SelectSeq(trace, IsOp)
    IN  [i \in 1 .. Len(ops) |-> << ops[i].kind, ops[i].batch >>]

\* forward, backward, step of batch 0, then of batch 1, ... for B batches
ExpectedOps(B) ==
    [i \in 1 .. 3 * B |->
        << CASE i % 3 = 1 -> "forward" [] i % 3 = 2 -> "backward" [] OTHER -> "step",
           (i - 1) \div 3 >>]

IsPrefix(a, b) == Len(a) <= Len(b) /\ \A i \in 1 .. Len(a) : a[i] = b[i]

\* the training pass of epoch e has returned
TrainDone(e) == e <= t \/ (e = t + 1 /\ pc \in TestPcs)

\* C1: a training pass does one forward, one backward and one update per
\* batch, batch i before batch i+1 and on the i-th batch of the loader; when
\* the pass has returned, exactly B of each were done for a loader of B
\* batches, none skipped and none repeated.
C1_OneCyclePerBatchInOrder ==
    /\ \A e \in 1 .. epochs :
         /\ IsPrefix(TrainOps(e), ExpectedOps(LenLoader(train_dataloader)))
         /\ TrainDone(e) => TrainOps(e) = ExpectedOps(LenLoader(train_dataloader))
    /\ pc \in TrainBodyPcs => local.X = BatchAt(train_dataloader, batch)

C1_Witness ==
    /\ pc = "test_enter"
    /\ t = 1
    /\ LenLoader(train_dataloader) = 3
    /\ Len(TrainOps(2)) = 9

\* C2: no step of the evaluation pass changes a parameter or an accumulated
\* gradient (plain SGD keeps no further optimizer state).
C2_EvalReadOnly ==
    [][(pc \in TestPcs) => (params' = params /\ grad' = grad)]_vars

C2_Witness ==
    /\ pc = "test_summary"
    /\ local.seen >= 2
    /\ batch >= 2
    /\ params # Zero

\* C3: the accumulated gradient is zero whenever a batch's backward step is
\* about to run, and when the optimizer update of batch i is about to be
\* applied it is the gradient of batch i alone.
C3_GradOfThisBatchOnly ==
    /\ pc \in {"train_enter", "train_iter", "train_loss", "train_backward"}
         => grad = Zero
    /\ pc = "train_step"
         => grad = BatchGrad(loss_fn, params, BatchAt(train_dataloader, batch))

C3_Witness ==
    /\ pc = "train_step"
    /\ batch >= 1
    /\ t >= 1
    /\ grad # Zero
    /\ \E i \in 1 .. Len(trace) :
         trace[i].kind = "step" /\ trace[i].val[1] # 0

\* position of an event inside its epoch
Phase(ev) ==
    CASE ev.kind = "header" -> 0
      [] ev.kind \in TrainOpKinds \cup {"report"} -> 1
      [] ev.kind = "eval" -> 2
      [] ev.kind = "summary" -> 3
      [] OTHER -> 4

\* C4: epochs run in the order 1..N; inside an epoch the header comes first,
\* then every training step, then every evaluation step, then the summary;
\* the next epoch starts only after that summary.
C4_StrictSequence ==
    /\ Len(trace) > 0 =>
         \/ trace[1].kind = "header" /\ trace[1].epoch = 1
         \/ trace[1].kind = "done" /\ epochs = 0
    /\ \A i \in 1 .. Len(trace) - 1 :
         LET a == trace[i]
             b == trace[i + 1]
         IN  /\ Phase(a) # 4
             /\ b.kind = "header"
                  => a.kind = "summary" /\ b.epoch = a.epoch + 1
             /\ b.kind = "done" => a.kind = "summary" /\ a.epoch = epochs
             /\ b.kind \notin {"header", "done"}
                  => /\ b.epoch = a.epoch
                     /\ Phase(a) <= Phase(b)
                     /\ Phase(a) # 3

C4_Witness ==
    /\ pc = "done"
    /\ epochs = 2
    /\ LenLoader(train_dataloader) >= 2
    /\ LenLoader(test_dataloader) >= 2
CountKind(k) == Cardinality({i \in 1 .. Len(trace) : trace[i].kind = k})

\* the run has ended normally: the completion marker was printed once, last,
\* right after the summary of epoch N (alone when N = 0)
Completed ==
    /\ pc = "done"
    /\ CountKind("done") = 1
    /\ trace[Len(trace)].kind = "done"
    /\ IF epochs = 0 THEN Len(trace) = 1
       ELSE /\ trace[Len(trace) - 1].kind = "summary"
            /\ trace[Len(trace) - 1].epoch = epochs
            /\ CountKind("summary") = epochs

\* C5: for every epoch count N >= 0, a run in which no step fails ends: it
\* eventually prints the completion marker, once, after the summary of
\* epoch N (at once when N = 0), and prints nothing after it.
C5_Terminates == [](pc # "error") => <>[]Completed

C5_Witness ==
    /\ Completed
    /\ epochs = MaxEpochs
    /\ Len(train_dataloader.dataset) = MaxTrainSize
Summaries == {i \in 1 .. Len(trace) : trace[i].kind = "summary"}

\* the evaluation pass of epoch t has just printed its summary
JustSummarised ==
    pc = "epoch" /\ t >= 1 /\ trace[Len(trace)].kind = "summary"

\* C6: when an evaluation pass has iterated its loader, the sizes of the
\* batches it was given add up to the declared size of the dataset, and this
\* size is what the correct count is divided by, whether or not the batch
\* size divides the dataset size.
C6_SampleCountIsDatasetSize ==
    /\ pc = "test_summary" \/ JustSummarised
         => /\ local.seen = Len(test_dataloader.dataset)
            /\ local.size = local.seen
    /\ \A i \in Summaries : trace[i].val[2] = Len(test_dataloader.dataset)

C6_Witness ==
    /\ JustSummarised
    /\ Len(test_dataloader.dataset) = 3
    /\ test_dataloader.batch_size = 2
    /\ local.seen = 3
    /\ trace[Len(trace)].val[2] = 3

\* number of eval steps the evaluation pass of epoch e has taken
EvalBatches(e) ==
    Cardinality({i \in 1 .. Len(trace) :
                   trace[i].kind = "eval" /\ trace[i].epoch = e})

\* the loss of every batch of the loader under parameters p, added up
RECURSIVE LossOfBatches(_, _, _, _)
LossOfBatches(lf, p, dl, n) ==
    IF n = 0 THEN 0
    ELSE LET X == BatchAt(dl, n - 1)
         IN  Loss(lf, Forward(p, X), X) + LossOfBatches(lf, p, dl, n - 1)

\* the samples of the whole dataset that parameters p classify as labelled
Hits(p, ds) ==
    Cardinality({i \in 1 .. Len(ds) :
        LET row == [c \in Classes |-> p[c] * ds[i].x]
        IN  \A c \in Classes :
              /\ row[c] <= row[ds[i].y]
              /\ row[c] = row[ds[i].y] => ds[i].y <= c})

\* C7: the summary of an evaluation pass reports, as mean loss, the sum of
\* the losses of the batches iterated over the number of batches iterated
\* and, as accuracy, the number of samples whose predicted class is their
\* label over the number of samples iterated.
C7_SummaryValues ==
    JustSummarised =>
        LET ev == trace[Len(trace)]
        IN  /\ ev.epoch = t
            /\ ev.val[1] = Hits(params, test_dataloader.dataset)
            /\ ev.val[2] = local.seen
            /\ ev.val[3] = LossOfBatches(loss_arg, params, test_dataloader,
                                         EvalBatches(t))
            /\ ev.val[4] = EvalBatches(t)

C7_Witness ==
    /\ JustSummarised
    /\ EvalBatches(t) = 2
    /\ local.seen = 3
    /\ trace[Len(trace)].val[1] \in 1 .. 2
    /\ trace[Len(trace)].val[3] > 0

\* loss functions that return no negative value
NonNegativeLossFns == {"hinge"}

\* C8: every summary reports an accuracy between 0 and 1, and a mean loss
\* of at least 0 when the loss function returns no negative value.
C8_MetricRanges ==
    \A i \in Summaries :
        LET v == trace[i].val
        IN  /\ v[2] > 0
            /\ 0 <= v[1]
            /\ v[1] <= v[2]
            /\ v[4] > 0
            /\ loss_arg \in NonNegativeLossFns => v[3] >= 0

C8_Witness ==
    /\ loss_arg \in NonNegativeLossFns
    /\ \E i \in Summaries : trace[i].val[1] = trace[i].val[2] /\ trace[i].val[3] > 0
    /\ \E i \in Summaries : trace[i].val[1] = 0

\* the unclamped loss does go below zero
C8_NegativeLossSeen ==
    loss_arg = "margin" /\ \E i \in Summaries : trace[i].val[3] < 0

\* C9: when the evaluation loader yields no batch, the evaluation pass
\* prints no summary and the run goes no further than that pass: it ends
\* there with an error, the mean loss over zero batches is never produced.
C9_EmptyEvalFails ==
    (epochs > 0 /\ LenLoader(test_dataloader) = 0)
        => /\ Summaries = {}
           /\ CountKind("done") = 0
           /\ t = 0
           /\ pc # "done"
           /\ (pc = "error" /\ err = "ZeroDivisionError") =>
                 /\ local.num_batches = 0
                 /\ CountKind("eval") = 0

C9_Witness ==
    /\ LenLoader(test_dataloader) = 0
    /\ pc = "error"
    /\ err = "ZeroDivisionError"
    /\ CountKind("step") >= 2

\* C10: a batch_size of 0 is rejected before any epoch runs: no header, no
\* forward pass, no parameter update.
C10_InvalidConfigRejected ==
    batch_size = 0 =>
        /\ CountKind("header") = 0
        /\ CountKind("forward") = 0
        /\ CountKind("step") = 0
\* the positions of the progress lines in the trace
ReportIdx == {j \in 1 .. Len(trace) : trace[j].kind = "report"}

\* the batch indices of epoch e at which a progress line was printed
ReportedBatches(e) ==
    {trace[i].batch : i \in {j \in ReportIdx : trace[j].epoch = e}}

\* the batch indices of epoch e whose loop body has run to its end
FinishedBatches(e) ==
    IF TrainDone(e) THEN 0 .. LenLoader(train_dataloader) - 1
    ELSE IF e = t + 1 /\ pc \in TrainBodyPcs \cup {"train_iter"}
         THEN 0 .. batch - 1
         ELSE {}

\* every progress line is at a multiple of K, once per batch
ReportsOnlyEvery(K) ==
    LET R == ReportIdx IN
    \A i \in R :
        /\ trace[i].batch % K = 0
        /\ \A j \in R :
             trace[j].epoch = trace[i].epoch /\ trace[j].batch = trace[i].batch
                 => j = i

\* of the finished batches, exactly the multiples of K have a progress line
ReportsExactlyEvery(K) ==
    pc # "error" =>
        \A e \in 1 .. epochs :
            ReportedBatches(e) = {b \in FinishedBatches(e) : b % K = 0}

\* what train_loop does: a progress line exactly at the zero-indexed batch
\* indices that are multiples of the literal 100, once each
ReportsEvery100 ==
    ReportsOnlyEvery(ReportEvery) /\ ReportsExactlyEvery(ReportEvery)

\* intervals a caller would configure: the example of the claim, the default
ConfigurableIntervals == {5, 100}

\* C11: the progress lines are exactly at the zero-indexed batch indices that
\* are multiples of the report interval K the caller configures (default 100),
\* whatever K the caller chooses, and at no other batch.
C11_ReportsEveryConfiguredK ==
    \A K \in ConfigurableIntervals :
        ReportsOnlyEvery(K) /\ ReportsExactlyEvery(K)

\* number of samples in batches 0 .. b of a loader
RECURSIVE SamplesThrough(_, _)
SamplesThrough(dl, b) ==
    IF b < 0 THEN 0 ELSE Len(BatchAt(dl, b)) + SamplesThrough(dl, b - 1)

\* C12: a progress line printed at batch i carries as current the number of
\* samples of batches 0 .. i and as size the declared size of the dataset,
\* also when batch i is a last, shorter batch; current never exceeds size.
C12_ReportCountsSamples ==
    \A i \in ReportIdx :
            /\ trace[i].val[2] = SamplesThrough(train_dataloader, trace[i].batch)
            /\ trace[i].val[3] = Len(train_dataloader.dataset)
            /\ trace[i].val[2] <= trace[i].val[3]
\* the positions of train_loop
TrainPcs == TrainBodyPcs \cup {"train_enter", "train_iter"}

\* C13: a failure raised in batch i of epoch n is not caught and not retried:
\* the step that raises ends the run (nothing runs after it: no later batch,
\* no evaluation pass of epoch n, no later epoch, no completion marker) and
\* leaves the parameters, the gradients and the output as they were after the
\* last completed step.
C13_FailurePropagates ==
    [][ /\ pc # "error"
        /\ err' # err =>
             /\ pc' = "error"
             /\ params' = params /\ grad' = grad
             /\ trace' = trace /\ t' = t /\ batch' = batch
             /\ \A i \in 1 .. Len(trace') :
                  /\ trace'[i].kind # "done"
                  /\ pc \in TrainPcs /\ trace'[i].epoch = t + 1
                         => trace'[i].kind \notin {"eval", "summary"} ]_vars

C13_Witness ==
    /\ pc = "error" /\ err = "RuntimeError"
    /\ t = 1 /\ batch = 1
    /\ params # Zero
    /\ Len(TrainOps(2)) = 5
    /\ CountKind("summary") = 1

\* C14: gradient tracking is off during the whole evaluation pass: at every
\* iteration of the loop of test_loop tracking is disabled, the predictions
\* of every batch carry no graph, and no backward or update step follows an
\* evaluation batch of the same epoch.
C14_NoGradInEval ==
    /\ pc = "test_iter" => ~grad_enabled
    /\ pc \in {"test_iter", "test_summary"} /\ batch > 0 => ~local.requires_grad
    /\ pc \in TestPcs \ {"test_enter"} => grad = Zero
    /\ LET EvalIdx == {i \in 1 .. Len(trace) : trace[i].kind = "eval"}
       IN  \A i \in EvalIdx : \A j \in i + 1 .. Len(trace) :
               trace[j].epoch = trace[i].epoch
                   => trace[j].kind \notin {"backward", "step"}

C14_Witness ==
    /\ pc = "test_iter" /\ batch = 2 /\ t = 1
    /\ ~grad_enabled /\ ~local.requires_grad
    /\ params # Zero

\* C15: the mode of the model matches the pass that runs: training mode at
\* every position of train_loop after model.train(), in every epoch, and
\* eval mode at every position of test_loop after model.eval().
C15_ModeMatchesPass ==
    /\ pc \in TrainPcs \ {"train_enter"} => training
    /\ pc \in TestPcs \ {"test_enter"} => ~training

C15_Witness ==
    /\ pc = "train_loss" /\ t = 1 /\ training
    /\ CountKind("eval") > 0
\* C16: the running metrics start from zero in every evaluation pass and are
\* read once at its end: at every iteration the loss sum and the correct
\* count are those of the batches of THIS pass under the current parameters,
\* so is the summary, and an epoch has one summary.
C16_MetricsResetPerPass ==
    /\ pc = "test_iter" =>
         /\ local.seen = SamplesThrough(test_dataloader, batch - 1)
         /\ local.test_loss =
              LossOfBatches(local.loss_fun, params, test_dataloader, batch)
         /\ local.correct =
              Hits(params, SubSeq(test_dataloader.dataset, 1, local.seen))
    /\ JustSummarised =>
         /\ trace[Len(trace)].val[1] = Hits(params, test_dataloader.dataset)
         /\ trace[Len(trace)].val[3] =
              LossOfBatches(loss_arg, params, test_dataloader,
                            LenLoader(test_dataloader))
    /\ \A i, j \in Summaries : trace[i].epoch = trace[j].epoch => i = j

C16_Witness ==
    /\ pc = "test_iter" /\ t = 1 /\ batch = 1
    /\ \E i \in Summaries :
         /\ trace[i].val[1] > 0 /\ trace[i].val[3] > 0
         /\ local.test_loss < trace[i].val[3]

\* C17: no step of a training pass changes a dataset or a loader, and in
\* every pass batch i is the i-th batch of the unchanged loader and the size
\* is the declared size of the unchanged dataset.
C17_TrainLeavesDataAlone ==
    [][ (pc \in TrainPcs) =>
          /\ train_dataloader' = train_dataloader
          /\ test_dataloader' = test_dataloader
          /\ (pc' \in TrainBodyPcs) =>
               /\ local'.X = BatchAt(train_dataloader, batch')
               /\ local'.size = Len(train_dataloader.dataset) ]_vars

C17_Witness ==
    /\ pc = "train_loss" /\ t = 1 /\ batch = 1
    /\ params # Zero
    /\ Len(train_dataloader.dataset) = MaxTrainSize
    /\ local.X = BatchAt(train_dataloader, 1)
    /\ local.size = MaxTrainSize
\* the positions of train_loop at which the loss of the batch is computed
LossKnownPcs == {"train_backward", "train_step", "train_zero", "train_report"}

\* what train_loop does: the loss is computed by the global loss_fn
LossByGlobalLossFn ==
    pc \in LossKnownPcs => local.loss = Loss(loss_fn, local.pred, local.X)

\* C19: in every training step the loss that is back-propagated and reported
\* is computed by the loss function passed to train_loop as its argument,
\* whatever loss function is passed, and so is the gradient of the update.
C19_LossByArgument ==
    /\ pc \in LossKnownPcs =>
         local.loss = Loss(local.loss_fun, local.pred, local.X)
    /\ pc = "train_step" => grad = BatchGrad(local.loss_fun, params, local.X)

C21_CorrectCountsHits ==
    [][ (pc = "test_iter" /\ pc' = "test_iter" /\ batch' = batch + 1) =>
          LET X == BatchAt(test_dataloader, batch)
              pred == local'.pred
          IN  /\ local'.X = X
              /\ \A i \in 1 .. Len(X) : \A d \in Classes :
                     pred[i][d] <= pred[i][Argmax(pred[i])]
              /\ local'.correct - local.correct =
                     Cardinality({i \in 1 .. Len(X) : Argmax(pred[i]) = X[i].y})
              /\ local'.correct - local.correct = Hits(params, X)
              /\ local'.correct >= local.correct
              /\ 0 <= local'.correct /\ local'.correct <= local'.seen ]_vars

C21_Witness ==
    /\ pc = "test_iter" /\ batch = 2
    /\ local.seen = 3
    /\ local.correct \in 1 .. 2
    /\ \E c \in Classes : params[c] # 0

\* C22: there is no early stopping: a run that ended without failure made,
\* whatever its summaries reported, exactly N training passes and N
\* evaluation passes for N epochs, every training pass from the first batch
\* of the loader to the last, so N x B updates for a loader of B batches.
C22_NoEarlyStop ==
    pc = "done" =>
        LET B == LenLoader(train_dataloader)
        IN  /\ t = epochs
            /\ CountKind("header") = epochs
            /\ CountKind("summary") = epochs
            /\ CountKind("step") = epochs * B
            /\ \A e \in 1 .. epochs :
                 /\ TrainOps(e) = ExpectedOps(B)
                 /\ EvalBatches(e) = LenLoader(test_dataloader)

C22_Witness ==
    /\ pc = "done" /\ epochs = MaxEpochs
    /\ LenLoader(train_dataloader) = 2
    /\ CountKind("step") = 2 * MaxEpochs
    /\ \E i \in Summaries :
         /\ trace[i].epoch = 1
         /\ trace[i].val[1] = trace[i].val[2]
         /\ trace[i].val[2] > 0

\* C24: gradient tracking is off only inside the loop of test_loop: it is on
\* again when test_loop has ended, by returning or by an error raised in its
\* batch loop, so every backward step of a training pass, also the one after
\* an evaluation pass, runs on a loss that carries its graph and does not
\* fail for want of one.
C24_NoGradScopedToEval ==
    /\ pc # "test_iter" => grad_enabled
    /\ pc \in {"train_loss", "train_backward"} => local.requires_grad
    /\ pc = "train_step" => grad = BatchGrad(loss_fn, params, local.X)

C24_Witness ==
    /\ pc = "train_step" /\ t = 1
    /\ grad_enabled
    /\ grad # Zero
    /\ CountKind("eval") > 0
====
